---- MODULE Spec2Model ----
(***************************************************************************)
(* Two-party escrow contract (src/src/escrow.rs): the storage items, the   *)
(* instantiate / execute / query entry points and their handlers, as a     *)
(* state machine.  Every handler is an operator computed from the current  *)
(* storage that yields the handler's Result: the error (or Ok), the        *)
(* storage as the handler leaves it at the point it returns, the messages  *)
(* of the Response and the data of a query.  One action per entry-point    *)
(* message applies that result.                                            *)
(***************************************************************************)
EXTENDS Integers, Sequences, FiniteSets, TLC

\* ------------------------------------------------------------------ bounds

\* Uint128::MAX, scaled down to the model's integer range: the largest
\* amount a Uint128 of the model holds (multiply_ratio panics above it).
Uint128Max == 1023

\* msg.sale_price of the instantiations explored (7: truncating divisions;
\* 1000: the round case, overflowing with 150 percent).
Prices == {7, 1000}

\* msg.state_percent / msg.seller_percent of the instantiations explored
\* (u64, not range-checked by instantiate).
Percents == {10, 20, 150}

\* amount argument of StakeWithBabylon.
Amounts == {0, 500}

\* babylon_stake_token argument of StakeWithBabylon.
Tokens == {"bbn_token"}

\* Strings that deps.api.addr_validate accepts.
ValidAddrs == {"alice", "bob", "carol"}

\* msg.buyer / msg.seller of the instantiations explored ("" is rejected
\* by addr_validate).
PartyInputs == {"alice", "bob", ""}

\* info.sender of the execute messages explored.
Senders == {"alice", "bob", "carol"}

\* msg.title / msg.description.
Titles == {"title"}
Descriptions == {"description"}

\* ---------------------------------------------------------------- storage

VARIABLES
    state,          \* STATE, Item<State>: <<>> when never saved, else <<State>>
    stake_status,   \* STAKE_STATUS, Map<&Addr, bool>: a function on the saved keys
    cancel_status,  \* CANCEL_STATUS, Map<&Addr, bool>: a function on the saved keys
    stake_amounts,  \* STAKE_AMOUNTS, Map<&Addr, Uint128>: a function on the saved keys
    response,       \* the Result of the last entry-point call
    last_stake_call,\* history: for each party, its latest stake call (Stake,
                    \* StakeWithBabylon or RevokeStake), whether it returned
                    \* Ok and the amount argument it passed
    pre             \* history: the storage and last_stake_call before the
                    \* last entry-point call

vars == <<state, stake_status, cancel_status, stake_amounts, response, last_stake_call, pre>>

\* The four storage items as one value (deps.storage).
storage ==
    [state |-> state, stake_status |-> stake_status,
     cancel_status |-> cancel_status, stake_amounts |-> stake_amounts]

\* A Map with no key saved.
EmptyMap == [k \in {} |-> FALSE]

\* Map::save(storage, key, value).
save(map, key, value) ==
    [k \in (DOMAIN map) \cup {key} |-> IF k = key THEN value ELSE map[k]]

\* Map::load(storage, key) is Err(StdError::NotFound) for a key never saved.
has(map, key) == key \in DOMAIN map

\* ----------------------------------------------------------------- errors

Ok == "Ok"
Unauthorized == "Unauthorized"
NoStakeToRevoke == "No stake found to revoke"
NoCancellationToRevoke == "No cancellation found to revoke"
StakeIncomplete == "Both parties must stake before confirmation"
InvalidAgreement == "Buyer and seller addresses cannot be the same"
\* StdError::NotFound of Item::load / Map::load on a missing entry.
NotFound == "NotFound"
\* The error of deps.api.addr_validate.
InvalidAddress == "InvalidAddress"
\* The panic of Uint128::multiply_ratio.
MultiplicationOverflow == "Multiplication overflow"

\* Err(e): the handler returns before any save, the storage is `st`.
Err(e, st) == [err |-> e, storage |-> st, messages |-> <<>>, data |-> <<>>]

\* Ok(Response::new()...) with the storage `st` the handler has saved.
Done(st, msgs) == [err |-> Ok, storage |-> st, messages |-> msgs, data |-> <<>>]

\* -------------------------------------------------------------- messages

\* BankMsg::Send { to_address, amount: vec![Coin { denom, amount }] }
BankSend(to, denom, amount) ==
    [kind |-> "BankMsg::Send", to_address |-> to, denom |-> denom, amount |-> amount]

\* WasmMsg::Execute { contract_addr, msg: BabylonMsg::VerifyStake { user, amount }, funds: [] }
VerifyStake(contract, user, amount) ==
    [kind |-> "WasmMsg::Execute", contract_addr |-> contract, user |-> user, amount |-> amount]

Denom == "ujuno"
BabylonContract == "babylon_staking_contract_address"
ContractAddress == "escrow_contract"

\* Uint128::multiply_ratio(numerator, denominator): floor(x * n / d) in full
\* width, a panic when d = 0 or the result does not fit a Uint128.
multiply_ratio_panics(x, n, d) == d = 0 \/ (x * n) \div d > Uint128Max
multiply_ratio(x, n, d) == (x * n) \div d

\* ---------------------------------------------------------------- handlers

\* info.sender != state.buyer && info.sender != state.seller
not_party(sender) == sender # state[1].buyer /\ sender # state[1].seller

\* Faulty variant of instantiate: the buyer == seller check is missing.
instantiate_same_party_allowed(msg) ==
    IF msg.buyer \notin ValidAddrs \/ msg.seller \notin ValidAddrs
    THEN Err(InvalidAddress, storage)
    ELSE IF \/ multiply_ratio_panics(msg.sale_price, msg.state_percent, 100)
            \/ multiply_ratio_panics(msg.sale_price, msg.seller_percent, 100)
    THEN Err(MultiplicationOverflow, storage)
    ELSE Done([state |-> <<[buyer |-> msg.buyer, seller |-> msg.seller,
                            sale_price |-> msg.sale_price,
                            state_percent |-> msg.state_percent,
                            seller_percent |-> msg.seller_percent,
                            title |-> msg.title, description |-> msg.description,
                            is_active |-> TRUE, is_cancelled |-> FALSE]>>,
               stake_status |-> stake_status,
               cancel_status |-> cancel_status,
               stake_amounts |->
                   save(save(stake_amounts, msg.buyer,
                             multiply_ratio(msg.sale_price, msg.state_percent, 100)),
                        msg.seller,
                        multiply_ratio(msg.sale_price, msg.seller_percent, 100))],
              <<>>)

\* Faulty variant of instantiate: the seller's stake is computed with
\* msg.state_percent, the buyer's percentage.
instantiate_one_percent(msg) ==
    IF msg.buyer \notin ValidAddrs \/ msg.seller \notin ValidAddrs
    THEN Err(InvalidAddress, storage)
    ELSE IF msg.buyer = msg.seller
    THEN Err(InvalidAgreement, storage)
    ELSE IF multiply_ratio_panics(msg.sale_price, msg.state_percent, 100)
    THEN Err(MultiplicationOverflow, storage)
    ELSE Done([state |-> <<[buyer |-> msg.buyer, seller |-> msg.seller,
                            sale_price |-> msg.sale_price,
                            state_percent |-> msg.state_percent,
                            seller_percent |-> msg.seller_percent,
                            title |-> msg.title, description |-> msg.description,
                            is_active |-> TRUE, is_cancelled |-> FALSE]>>,
               stake_status |-> stake_status,
               cancel_status |-> cancel_status,
               stake_amounts |->
                   save(save(stake_amounts, msg.buyer,
                             multiply_ratio(msg.sale_price, msg.state_percent, 100)),
                        msg.seller,
                        multiply_ratio(msg.sale_price, msg.state_percent, 100))],
              <<>>)

\* instantiate(deps, env, _info, msg): validates the two addresses, rejects
\* equal parties, saves STATE, computes the two stake amounts and saves
\* them.  A panic of multiply_ratio aborts the instantiation: nothing of it
\* is kept.
instantiate(msg) ==
    IF msg.buyer \notin ValidAddrs \/ msg.seller \notin ValidAddrs
    THEN Err(InvalidAddress, storage)
    ELSE IF msg.buyer = msg.seller
    THEN Err(InvalidAgreement, storage)
    ELSE LET new_state ==
                 [buyer |-> msg.buyer, seller |-> msg.seller,
                  sale_price |-> msg.sale_price,
                  state_percent |-> msg.state_percent,
                  seller_percent |-> msg.seller_percent,
                  title |-> msg.title, description |-> msg.description,
                  is_active |-> TRUE, is_cancelled |-> FALSE]
             saved == [storage EXCEPT !.state = <<new_state>>]
         IN  IF \/ multiply_ratio_panics(msg.sale_price, msg.state_percent, 100)
                \/ multiply_ratio_panics(msg.sale_price, msg.seller_percent, 100)
             THEN Err(MultiplicationOverflow, storage)
             ELSE LET buyer_stake == multiply_ratio(msg.sale_price, msg.state_percent, 100)
                      seller_stake == multiply_ratio(msg.sale_price, msg.seller_percent, 100)
                  IN  Done([saved EXCEPT !.stake_amounts =
                                save(save(@, msg.buyer, buyer_stake), msg.seller, seller_stake)],
                           <<>>)

\* execute_stake(deps, env, info): the handler ExecuteMsg::Stake dispatches
\* to.  Its body is not in the source file; it is the PostStake transition
\* of the design: the caller must be a party, its stake is marked posted.
execute_stake(sender) ==
    IF state = <<>> THEN Err(NotFound, storage)
    ELSE IF not_party(sender) THEN Err(Unauthorized, storage)
    ELSE Done([storage EXCEPT !.stake_status = save(@, sender, TRUE)], <<>>)

\* Faulty variant of execute_stake_with_babylon: the stake is not marked
\* posted in the call (it would wait for the attestation).
execute_stake_with_babylon_unposted(sender, babylon_stake_token, amount) ==
    IF state = <<>> THEN Err(NotFound, storage)
    ELSE IF not_party(sender) THEN Err(Unauthorized, storage)
    ELSE Done(storage, <<VerifyStake(BabylonContract, sender, amount)>>)

\* execute_stake_with_babylon(deps, env, info, babylon_stake_token, amount)
execute_stake_with_babylon(sender, babylon_stake_token, amount) ==
    IF state = <<>> THEN Err(NotFound, storage)
    ELSE IF not_party(sender) THEN Err(Unauthorized, storage)
    ELSE Done([storage EXCEPT !.stake_status = save(@, sender, TRUE)],
              <<VerifyStake(BabylonContract, sender, amount)>>)

\* Faulty variant of execute_cancel: once both parties assert
\* cancellation, STATE is saved with is_cancelled = true.
execute_cancel_marks_cancelled(sender) ==
    IF state = <<>> THEN Err(NotFound, storage)
    ELSE IF not_party(sender) THEN Err(Unauthorized, storage)
    ELSE LET saved == [storage EXCEPT !.cancel_status = save(@, sender, TRUE)]
             both == /\ has(saved.cancel_status, state[1].buyer)
                     /\ saved.cancel_status[state[1].buyer]
                     /\ has(saved.cancel_status, state[1].seller)
                     /\ saved.cancel_status[state[1].seller]
         IN  IF both
             THEN Done([saved EXCEPT !.state = <<[state[1] EXCEPT !.is_cancelled = TRUE]>>],
                       <<>>)
             ELSE Done(saved, <<>>)

\* Faulty variant of execute_cancel: the flag is saved for both parties.
execute_cancel_both(sender) ==
    IF state = <<>> THEN Err(NotFound, storage)
    ELSE IF not_party(sender) THEN Err(Unauthorized, storage)
    ELSE Done([storage EXCEPT !.cancel_status =
                   save(save(@, state[1].buyer, TRUE), state[1].seller, TRUE)], <<>>)

\* Faulty variant of execute_cancel: the flag is toggled instead of set.
execute_cancel_toggles(sender) ==
    IF state = <<>> THEN Err(NotFound, storage)
    ELSE IF not_party(sender) THEN Err(Unauthorized, storage)
    ELSE Done([storage EXCEPT !.cancel_status =
                   save(@, sender, ~(has(@, sender) /\ @[sender]))], <<>>)

\* execute_cancel(deps, env, info)
execute_cancel(sender) ==
    IF state = <<>> THEN Err(NotFound, storage)
    ELSE IF not_party(sender) THEN Err(Unauthorized, storage)
    ELSE Done([storage EXCEPT !.cancel_status = save(@, sender, TRUE)], <<>>)

\* Faulty variant of execute_revoke_cancellation: the record is removed
\* instead of being saved as false.
execute_revoke_cancellation_removes(sender) ==
    IF state = <<>> THEN Err(NotFound, storage)
    ELSE IF not_party(sender) THEN Err(Unauthorized, storage)
    ELSE IF ~has(cancel_status, sender) THEN Err(NotFound, storage)
    ELSE IF ~cancel_status[sender] THEN Err(NoCancellationToRevoke, storage)
    ELSE Done([storage EXCEPT !.cancel_status =
                   [k \in (DOMAIN @) \ {sender} |-> @[k]]], <<>>)

\* Faulty variant of execute_revoke_cancellation: the record is saved as
\* false before the caller and the record are checked.
execute_revoke_cancellation_saves_first(sender) ==
    IF state = <<>> THEN Err(NotFound, storage)
    ELSE LET saved == [storage EXCEPT !.cancel_status = save(@, sender, FALSE)]
         IN  IF not_party(sender) THEN Err(Unauthorized, saved)
             ELSE IF ~has(cancel_status, sender) THEN Err(NotFound, saved)
             ELSE IF ~cancel_status[sender] THEN Err(NoCancellationToRevoke, saved)
             ELSE Done(saved, <<>>)

\* execute_revoke_cancellation(deps, env, info)
execute_revoke_cancellation(sender) ==
    IF state = <<>> THEN Err(NotFound, storage)
    ELSE IF not_party(sender) THEN Err(Unauthorized, storage)
    ELSE IF ~has(cancel_status, sender) THEN Err(NotFound, storage)
    ELSE IF ~cancel_status[sender] THEN Err(NoCancellationToRevoke, storage)
    ELSE Done([storage EXCEPT !.cancel_status = save(@, sender, FALSE)], <<>>)

\* Faulty variant of execute_confirm: a confirmation is refused while a
\* party asserts cancellation.
execute_confirm_refuses_cancelled(sender) ==
    IF state = <<>> THEN Err(NotFound, storage)
    ELSE IF not_party(sender) THEN Err(Unauthorized, storage)
    ELSE IF ~has(stake_status, state[1].buyer) THEN Err(NotFound, storage)
    ELSE IF ~has(stake_status, state[1].seller) THEN Err(NotFound, storage)
    ELSE IF ~stake_status[state[1].buyer] \/ ~stake_status[state[1].seller]
    THEN Err(StakeIncomplete, storage)
    ELSE IF \E c \in DOMAIN cancel_status : cancel_status[c]
    THEN Err(StakeIncomplete, storage)
    ELSE Done(storage, <<>>)

\* Faulty variant of execute_confirm: the two flags are loaded from
\* CANCEL_STATUS instead of STAKE_STATUS.
execute_confirm_reads_cancel(sender) ==
    IF state = <<>> THEN Err(NotFound, storage)
    ELSE IF not_party(sender) THEN Err(Unauthorized, storage)
    ELSE IF ~has(cancel_status, state[1].buyer) THEN Err(NotFound, storage)
    ELSE IF ~has(cancel_status, state[1].seller) THEN Err(NotFound, storage)
    ELSE IF ~cancel_status[state[1].buyer] \/ ~cancel_status[state[1].seller]
    THEN Err(StakeIncomplete, storage)
    ELSE Done(storage, <<>>)

\* execute_confirm(deps, env, info)
execute_confirm(sender) ==
    IF state = <<>> THEN Err(NotFound, storage)
    ELSE IF not_party(sender) THEN Err(Unauthorized, storage)
    ELSE IF ~has(stake_status, state[1].buyer) THEN Err(NotFound, storage)
    ELSE IF ~has(stake_status, state[1].seller) THEN Err(NotFound, storage)
    ELSE IF ~stake_status[state[1].buyer] \/ ~stake_status[state[1].seller]
    THEN Err(StakeIncomplete, storage)
    ELSE Done(storage, <<>>)

\* Faulty variant of execute_revoke_stake: the `if !is_staked` check is
\* missing, a loaded record is refunded whatever its value.
execute_revoke_stake_unchecked(sender) ==
    IF state = <<>> THEN Err(NotFound, storage)
    ELSE IF not_party(sender) THEN Err(Unauthorized, storage)
    ELSE IF ~has(stake_status, sender) THEN Err(NotFound, storage)
    ELSE IF ~has(stake_amounts, sender) THEN Err(NotFound, storage)
    ELSE Done([storage EXCEPT !.stake_status = save(@, sender, FALSE)],
              <<BankSend(sender, Denom, stake_amounts[sender])>>)

\* Faulty variant of execute_revoke_stake: the stake record is loaded and
\* checked before the caller is.
execute_revoke_stake_checks_stake_first(sender) ==
    IF state = <<>> THEN Err(NotFound, storage)
    ELSE IF ~has(stake_status, sender) THEN Err(NotFound, storage)
    ELSE IF ~stake_status[sender] THEN Err(NoStakeToRevoke, storage)
    ELSE IF not_party(sender) THEN Err(Unauthorized, storage)
    ELSE IF ~has(stake_amounts, sender) THEN Err(NotFound, storage)
    ELSE Done([storage EXCEPT !.stake_status = save(@, sender, FALSE)],
              <<BankSend(sender, Denom, stake_amounts[sender])>>)

\* Faulty variant of execute_revoke_stake: the refunded amount is loaded
\* for state.buyer instead of info.sender.
execute_revoke_stake_buyer_amount(sender) ==
    IF state = <<>> THEN Err(NotFound, storage)
    ELSE IF not_party(sender) THEN Err(Unauthorized, storage)
    ELSE IF ~has(stake_status, sender) THEN Err(NotFound, storage)
    ELSE IF ~stake_status[sender] THEN Err(NoStakeToRevoke, storage)
    ELSE IF ~has(stake_amounts, state[1].buyer) THEN Err(NotFound, storage)
    ELSE Done([storage EXCEPT !.stake_status = save(@, sender, FALSE)],
              <<BankSend(sender, Denom, stake_amounts[state[1].buyer])>>)

\* Faulty variant of execute_revoke_stake: STAKE_STATUS is not saved as
\* false before the refund is emitted.
execute_revoke_stake_keeps_posted(sender) ==
    IF state = <<>> THEN Err(NotFound, storage)
    ELSE IF not_party(sender) THEN Err(Unauthorized, storage)
    ELSE IF ~has(stake_status, sender) THEN Err(NotFound, storage)
    ELSE IF ~stake_status[sender] THEN Err(NoStakeToRevoke, storage)
    ELSE IF ~has(stake_amounts, sender) THEN Err(NotFound, storage)
    ELSE Done(storage, <<BankSend(sender, Denom, stake_amounts[sender])>>)

\* execute_revoke_stake(deps, env, info)
execute_revoke_stake(sender) ==
    IF state = <<>> THEN Err(NotFound, storage)
    ELSE IF not_party(sender) THEN Err(Unauthorized, storage)
    ELSE IF ~has(stake_status, sender) THEN Err(NotFound, storage)
    ELSE IF ~stake_status[sender] THEN Err(NoStakeToRevoke, storage)
    ELSE IF ~has(stake_amounts, sender) THEN Err(NotFound, storage)
    ELSE LET stake_amount == stake_amounts[sender]
         IN  Done([storage EXCEPT !.stake_status = save(@, sender, FALSE)],
                  <<BankSend(sender, Denom, stake_amount)>>)

\* Faulty variant of query_status: the four flags are read with load(..)?
\* instead of unwrap_or(false).
query_status_strict ==
    IF state = <<>> THEN Err(NotFound, storage)
    ELSE IF \/ ~has(stake_status, state[1].buyer) \/ ~has(stake_status, state[1].seller)
            \/ ~has(cancel_status, state[1].buyer) \/ ~has(cancel_status, state[1].seller)
    THEN Err(NotFound, storage)
    ELSE [err |-> Ok, storage |-> storage, messages |-> <<>>,
          data |-> <<[buyer |-> state[1].buyer,
                      seller |-> state[1].seller,
                      sale_price |-> state[1].sale_price,
                      state_percent |-> state[1].state_percent,
                      seller_percent |-> state[1].seller_percent,
                      title |-> state[1].title,
                      description |-> state[1].description,
                      buyer_stake |-> stake_status[state[1].buyer],
                      seller_stake |-> stake_status[state[1].seller],
                      buyer_cancel |-> cancel_status[state[1].buyer],
                      seller_cancel |-> cancel_status[state[1].seller],
                      active |-> state[1].is_active,
                      cancelled |-> state[1].is_cancelled,
                      agreement_address |-> ContractAddress]>>]

\* Map::load(..).unwrap_or(false)
load_or_false(map, key) == IF has(map, key) THEN map[key] ELSE FALSE

\* query_status(deps, env): reads only.
query_status ==
    IF state = <<>> THEN Err(NotFound, storage)
    ELSE [err |-> Ok, storage |-> storage, messages |-> <<>>,
          data |-> <<[buyer |-> state[1].buyer,
                      seller |-> state[1].seller,
                      sale_price |-> state[1].sale_price,
                      state_percent |-> state[1].state_percent,
                      seller_percent |-> state[1].seller_percent,
                      title |-> state[1].title,
                      description |-> state[1].description,
                      buyer_stake |-> load_or_false(stake_status, state[1].buyer),
                      seller_stake |-> load_or_false(stake_status, state[1].seller),
                      buyer_cancel |-> load_or_false(cancel_status, state[1].buyer),
                      seller_cancel |-> load_or_false(cancel_status, state[1].seller),
                      active |-> state[1].is_active,
                      cancelled |-> state[1].is_cancelled,
                      agreement_address |-> ContractAddress]>>]

\* ---------------------------------------------------------------- actions

\* ExecuteMsg / entry-point tags.
OpInstantiate == "instantiate"
OpStake == "Stake"
OpRevokeStake == "RevokeStake"
OpCancel == "Cancel"
OpRevokeCancellation == "RevokeCancellation"
OpConfirm == "Confirm"
OpStakeWithBabylon == "StakeWithBabylon"
OpGetStatus == "GetStatus"

StakeOps == {OpStake, OpStakeWithBabylon, OpRevokeStake}

\* The caller of an entry point that takes no info.sender into account.
NoSender == ""

\* An entry of last_stake_call.
StakeCall(op, ok, amount) == [op |-> op, ok |-> ok, amount |-> amount]
NoStakeCall == StakeCall("none", FALSE, 0)

\* One entry-point call: the storage becomes the one the handler returned,
\* the Result is kept in `response`, the history variables are updated
\* (`amount` is the call's amount argument, 0 when it has none).
Apply(op, sender, amount, r) ==
    /\ state' = r.storage.state
    /\ stake_status' = r.storage.stake_status
    /\ cancel_status' = r.storage.cancel_status
    /\ stake_amounts' = r.storage.stake_amounts
    /\ response' = [op |-> op, sender |-> sender, err |-> r.err,
                    messages |-> r.messages, data |-> r.data]
    /\ pre' = [storage |-> storage, last_stake_call |-> last_stake_call]
    /\ last_stake_call' =
         IF op \in StakeOps /\ state # <<>> /\ ~not_party(sender)
         THEN [last_stake_call EXCEPT ![sender] = StakeCall(op, r.err = Ok, amount)]
         ELSE last_stake_call

Init ==
    /\ state = <<>>
    /\ stake_status = EmptyMap
    /\ cancel_status = EmptyMap
    /\ stake_amounts = EmptyMap
    /\ response = [op |-> "none", sender |-> NoSender, err |-> Ok,
                   messages |-> <<>>, data |-> <<>>]
    /\ last_stake_call = [a \in Senders |-> NoStakeCall]
    /\ pre = [storage |-> [state |-> <<>>, stake_status |-> EmptyMap,
                           cancel_status |-> EmptyMap, stake_amounts |-> EmptyMap],
              last_stake_call |-> [a \in Senders |-> NoStakeCall]]

\* The contract is instantiated once: a second instantiate of the same
\* contract instance does not exist.
Instantiate ==
    /\ state = <<>>
    /\ \E b \in PartyInputs, s \in PartyInputs, p \in Prices,
          bp \in Percents, sp \in Percents, t \in Titles, d \in Descriptions :
         Apply(OpInstantiate, NoSender, 0,
               instantiate([buyer |-> b, seller |-> s, sale_price |-> p,
                            state_percent |-> bp, seller_percent |-> sp,
                            title |-> t, description |-> d]))

Stake == \E c \in Senders : Apply(OpStake, c, 0, execute_stake(c))

RevokeStake == \E c \in Senders : Apply(OpRevokeStake, c, 0, execute_revoke_stake(c))

Cancel == \E c \in Senders : Apply(OpCancel, c, 0, execute_cancel(c))

RevokeCancellation ==
    \E c \in Senders : Apply(OpRevokeCancellation, c, 0, execute_revoke_cancellation(c))

Confirm == \E c \in Senders : Apply(OpConfirm, c, 0, execute_confirm(c))

StakeWithBabylon ==
    \E c \in Senders, t \in Tokens, a \in Amounts :
        Apply(OpStakeWithBabylon, c, a, execute_stake_with_babylon(c, t, a))

GetStatus == Apply(OpGetStatus, NoSender, 0, query_status)

\* execute(deps, env, info, msg): the dispatch on the message tag.
execute ==
    \/ Stake
    \/ RevokeStake
    \/ Cancel
    \/ RevokeCancellation
    \/ Confirm
    \/ StakeWithBabylon

Next == Instantiate \/ execute \/ GetStatus

Spec == Init /\ [][Next]_vars

\* ------------------------------------------------------- claim vocabulary

\* The last entry-point call was `op` by `c`, on a created agreement.
Called(op, c) ==
    /\ pre.storage.state # <<>>
    /\ response.op = op
    /\ response.sender = c

\* The agreement the last call ran against, and its two parties.
Agreement == pre.storage.state[1]
Parties == {Agreement.buyer, Agreement.seller}

\* StakeRecord[c].posted / CancelRecord[c].asserted in storage `st`, an
\* absent record read as false.
Posted(st, c) == load_or_false(st.stake_status, c)
Asserted(st, c) == load_or_false(st.cancel_status, c)

\* The six transitions of the command surface.
ExecuteOps ==
    {OpStake, OpRevokeStake, OpCancel, OpRevokeCancellation, OpConfirm, OpStakeWithBabylon}

\* The last call changed nothing in storage.
StorageUnchanged == storage = pre.storage

\* ------------------------------------------------------------------ C1

\* C1 (as claimed): a Confirm by a party succeeds exactly when both stakes
\* are posted, and in every other state, a never-posted (absent) stake
\* record included, it fails with StakeIncomplete and no other error.
C1_ConfirmIffBothPostedElseStakeIncomplete ==
    \A c \in Senders :
        (Called(OpConfirm, c) /\ c \in Parties) =>
            IF Posted(pre.storage, Agreement.buyer) /\ Posted(pre.storage, Agreement.seller)
            THEN response.err = Ok
            ELSE response.err = StakeIncomplete

\* ------------------------------------------------------------------ C2

\* C2: whatever the transition, a caller that is neither buyer nor seller
\* gets Unauthorized (not the transition's own precondition error), the
\* storage is left as it was and no message is emitted.
C2_OutsiderUnauthorizedNoChange ==
    \A c \in Senders : \A op \in ExecuteOps :
        (Called(op, c) /\ c \notin Parties) =>
            /\ response.err = Unauthorized
            /\ StorageUnchanged
            /\ response.messages = <<>>

\* C2 witness: an outsider called RevokeStake, holding no stake record (the
\* state in which the precondition check would have failed), and Confirm
\* was refused to an outsider while both stakes were posted.
C2_Witness ==
    \E c \in Senders :
        /\ Called(OpRevokeStake, c)
        /\ c \notin Parties
        /\ ~has(pre.storage.stake_status, c)
        /\ Posted(storage, Agreement.buyer)
        /\ Posted(storage, Agreement.seller)

\* ------------------------------------------------------------------ C3

\* C3: a Stake (PostStake) by a party succeeds in every state and leaves
\* that party's stake posted; and once a post has made both stakes posted,
\* Confirm by either party succeeds.
C3_PostStakeSucceedsThenConfirm ==
    \A c \in Senders :
        (Called(OpStake, c) /\ c \in Parties) =>
            /\ response.err = Ok
            /\ has(stake_status, c) /\ stake_status[c] = TRUE
            /\ (Posted(storage, Agreement.buyer) /\ Posted(storage, Agreement.seller)) =>
                   \A d \in Parties : execute_confirm(d).err = Ok

\* C3 witness: right after creation the buyer posted, then the seller
\* posted (before the seller's post only the buyer's record existed).
C3_Witness ==
    /\ Called(OpStake, Agreement.seller)
    /\ response.err = Ok
    /\ pre.storage.stake_status = save(EmptyMap, Agreement.buyer, TRUE)
    /\ pre.storage.cancel_status = EmptyMap
    /\ pre.last_stake_call[Agreement.buyer] = StakeCall(OpStake, TRUE, 0)
    /\ pre.last_stake_call[Agreement.seller] = NoStakeCall

\* ------------------------------------------------------------------ C4

\* The percentage instantiate used for party c's stake amount.
PercentOf(c) ==
    IF c = Agreement.buyer THEN Agreement.state_percent ELSE Agreement.seller_percent

\* C4: a RevokeStake by a party whose stake is posted succeeds, unposts the
\* stake and emits exactly one refund: a bank send to the caller of the
\* stake amount stored at creation, in the settlement denomination,
\* whatever amount an earlier StakeWithBabylon passed.
C4_RevokePostedRefundsCreationAmount ==
    \A c \in Senders :
        (Called(OpRevokeStake, c) /\ c \in Parties /\ Posted(pre.storage, c)) =>
            /\ response.err = Ok
            /\ has(stake_status, c) /\ stake_status[c] = FALSE
            /\ response.messages =
                 <<BankSend(c, Denom,
                            multiply_ratio(Agreement.sale_price, PercentOf(c), 100))>>
            /\ pre.storage.stake_amounts[c] =
                 multiply_ratio(Agreement.sale_price, PercentOf(c), 100)

\* C4 witness: the revoked stake had been posted by a StakeWithBabylon whose
\* amount differs from the refunded one.
C4_Witness ==
    \E c \in Senders :
        /\ Called(OpRevokeStake, c)
        /\ response.err = Ok
        /\ pre.last_stake_call[c].op = OpStakeWithBabylon
        /\ pre.last_stake_call[c].ok
        /\ response.messages[1].amount # pre.last_stake_call[c].amount
        /\ response.messages[1].amount > 0

\* ------------------------------------------------------------------ C5

\* C5 (as claimed): a RevokeStake by a party with no posted stake (the record
\* false, or absent because the party never posted) fails with
\* NoStakeToRevoke, changes nothing and emits no refund.
C5_RevokeUnpostedFailsNoStake ==
    \A c \in Senders :
        (Called(OpRevokeStake, c) /\ c \in Parties /\ ~Posted(pre.storage, c)) =>
            /\ response.err = NoStakeToRevoke
            /\ StorageUnchanged
            /\ response.messages = <<>>

\* ------------------------------------------------------------------ C6

\* C6: when a party's latest stake call was a RevokeStake that succeeded
\* and its next stake call is again RevokeStake (the other party calling
\* anything in between), that second RevokeStake fails with
\* NoStakeToRevoke, emits no refund and changes nothing.
C6_SecondRevokeFails ==
    \A c \in Senders :
        ( /\ Called(OpRevokeStake, c)
          /\ c \in Parties
          /\ pre.last_stake_call[c] = StakeCall(OpRevokeStake, TRUE, 0) ) =>
            /\ response.err = NoStakeToRevoke
            /\ response.messages = <<>>
            /\ StorageUnchanged

\* C6 witness: the second RevokeStake of a party in a row, the other party
\* having posted its stake and asserted cancellation.
C6_Witness ==
    \E c \in Senders : \E o \in Senders :
        /\ Called(OpRevokeStake, c)
        /\ c \in Parties /\ o \in Parties /\ o # c
        /\ pre.last_stake_call[c] = StakeCall(OpRevokeStake, TRUE, 0)
        /\ response.err = NoStakeToRevoke
        /\ Posted(storage, o)
        /\ Asserted(storage, o)

\* ------------------------------------------------------------------ C7

\* C7: a StakeWithBabylon by a party succeeds for any amount, emits exactly
\* one message, the VerifyStake call to the attestation contract carrying
\* the caller and the amount argument, and marks the caller's stake posted
\* in the same call.
C7_BabylonPostsAndForwards ==
    \A c \in Senders :
        (Called(OpStakeWithBabylon, c) /\ c \in Parties) =>
            /\ response.err = Ok
            /\ response.messages =
                 <<VerifyStake(BabylonContract, c, last_stake_call[c].amount)>>
            /\ last_stake_call[c].op = OpStakeWithBabylon
            /\ has(stake_status, c) /\ stake_status[c] = TRUE

\* C7 witness: a StakeWithBabylon with amount 0 by a party whose stake
\* amount is not 0 and whose stake was not posted before.
C7_Witness ==
    \E c \in Senders :
        /\ Called(OpStakeWithBabylon, c)
        /\ c \in Parties
        /\ response.err = Ok
        /\ response.messages[1].amount = 0
        /\ stake_amounts[c] > 0
        /\ ~Posted(pre.storage, c)
        /\ Posted(storage, c)

\* ------------------------------------------------------------------ C8

\* C8: a transition that returns an error leaves the agreement, the stake
\* records, the cancel records and the stake amounts as they were and
\* emits no message.
C8_ErrorChangesNothing ==
    \A c \in Senders : \A op \in ExecuteOps :
        (Called(op, c) /\ response.err # Ok) =>
            /\ StorageUnchanged
            /\ response.messages = <<>>

\* C8 witness: a party's RevokeCancellation failed with
\* NoCancellationToRevoke while stake and cancel records existed.
C8_Witness ==
    \E c \in Senders :
        /\ Called(OpRevokeCancellation, c)
        /\ response.err = NoCancellationToRevoke
        /\ \E o \in Parties : Asserted(storage, o)
        /\ \E o \in Parties : Posted(storage, o)

\* ------------------------------------------------------------------ C9

\* C9 (as claimed): a RevokeCancellation by a party that does not assert
\* cancellation (the record false, or absent because the party never
\* called Cancel) fails with NoCancellationToRevoke and changes nothing.
C9_RevokeUnassertedFailsNoCancellation ==
    \A c \in Senders :
        (Called(OpRevokeCancellation, c) /\ c \in Parties /\ ~Asserted(pre.storage, c)) =>
            /\ response.err = NoCancellationToRevoke
            /\ StorageUnchanged

\* ------------------------------------------------------------------ C10

\* The flags a Cancel / RevokeCancellation pair of party c must leave alone
\* are the same in storages s and t.
OtherFlagsSame(s, t, c) ==
    /\ \A o \in Senders \ {c} : Asserted(s, o) = Asserted(t, o)
    /\ \A o \in Senders : Posted(s, o) = Posted(t, o)

\* C10: a Cancel by a party always succeeds; a RevokeCancellation by the
\* same party right after it succeeds too and leaves that party's flag
\* false, the other party's cancel flag and both stake flags being what
\* they were before the Cancel; and a RevokeCancellation by that party
\* right after a successful one fails with NoCancellationToRevoke.
C10_CancelRevokeRoundTrip ==
    [][ \A c \in Senders :
          /\ (Called(OpCancel, c) /\ c \in Parties) => response.err = Ok
          /\ ( /\ Called(OpCancel, c) /\ c \in Parties /\ response.err = Ok
               /\ response'.op = OpRevokeCancellation /\ response'.sender = c ) =>
                 /\ response'.err = Ok
                 /\ has(cancel_status', c) /\ cancel_status'[c] = FALSE
                 /\ OtherFlagsSame(pre.storage, storage', c)
          /\ ( /\ Called(OpRevokeCancellation, c) /\ c \in Parties /\ response.err = Ok
               /\ response'.op = OpRevokeCancellation /\ response'.sender = c ) =>
                 /\ response'.err = NoCancellationToRevoke
                 /\ storage' = storage
      ]_vars

\* C10 witness: a party's RevokeCancellation failed on a record that is
\* present and false, which only a Cancel followed by a successful
\* RevokeCancellation of that party produces; the other party asserts
\* cancellation and has posted.
C10_Witness ==
    \E c \in Senders : \E o \in Senders :
        /\ Called(OpRevokeCancellation, c)
        /\ c \in Parties /\ o \in Parties /\ o # c
        /\ response.err = NoCancellationToRevoke
        /\ has(pre.storage.cancel_status, c)
        /\ Asserted(storage, o)
        /\ Posted(storage, o)

\* ------------------------------------------------------------------ C11

\* C11: a Cancel by a party succeeds whatever the stake, cancel and
\* agreement flags are and leaves that party's flag true; calling it once
\* more in the state it produced succeeds and leaves the storage as it is.
C11_CancelSucceedsIdempotent ==
    \A c \in Senders :
        (Called(OpCancel, c) /\ c \in Parties) =>
            /\ response.err = Ok
            /\ has(cancel_status, c) /\ cancel_status[c] = TRUE
            /\ execute_cancel(c).err = Ok
            /\ execute_cancel(c).storage = storage
            /\ execute_cancel(c).messages = response.messages

\* C11 witness: a party called Cancel while it already asserted
\* cancellation, its stake posted and the other party's revoked.
C11_Witness ==
    \E c \in Senders : \E o \in Senders :
        /\ Called(OpCancel, c)
        /\ c \in Parties /\ o \in Parties /\ o # c
        /\ response.err = Ok
        /\ Asserted(pre.storage, c)
        /\ storage = pre.storage
        /\ Posted(storage, c)
        /\ has(stake_status, o) /\ ~stake_status[o]

\* ------------------------------------------------------------------ C12

\* The InstantiateMsg of a creation request.
CreateMsg(b, s, p, bp, sp, t, d) ==
    [buyer |-> b, seller |-> s, sale_price |-> p, state_percent |-> bp,
     seller_percent |-> sp, title |-> t, description |-> d]

\* C12: an instantiate whose buyer and seller are the same (valid) address
\* fails with InvalidAgreement and saves neither STATE nor a stake amount;
\* and the buyer and the seller of a created agreement differ.
C12_SamePartyRejected ==
    /\ state = <<>> =>
         \A b \in ValidAddrs : \A p \in Prices : \A bp \in Percents : \A sp \in Percents :
         \A t \in Titles : \A d \in Descriptions :
             LET r == instantiate(CreateMsg(b, b, p, bp, sp, t, d))
             IN  /\ r.err = InvalidAgreement
                 /\ r.storage.state = <<>>
                 /\ r.storage.stake_amounts = EmptyMap
    /\ (response.op = OpInstantiate /\ response.err = InvalidAgreement) =>
         /\ state = <<>>
         /\ stake_amounts = EmptyMap
         /\ stake_status = EmptyMap
         /\ cancel_status = EmptyMap
    /\ state # <<>> => state[1].buyer # state[1].seller

\* C12 witness: an instantiate was rejected with InvalidAgreement.
C12_Witness ==
    /\ response.op = OpInstantiate
    /\ response.err = InvalidAgreement
    /\ state = <<>>

\* ------------------------------------------------------------------ C13

\* C13: in a created agreement the stored stake amounts are
\* floor(sale_price * state_percent / 100) for the buyer and
\* floor(sale_price * seller_percent / 100) for the seller.
C13_StakeAmountsFromOwnPercent ==
    state # <<>> =>
        /\ DOMAIN stake_amounts = {state[1].buyer, state[1].seller}
        /\ stake_amounts[state[1].buyer] =
             (state[1].sale_price * state[1].state_percent) \div 100
        /\ stake_amounts[state[1].seller] =
             (state[1].sale_price * state[1].seller_percent) \div 100

\* C13 witness: price 1000 with 10 and 20 percent was instantiated and
\* gave 100 and 200.
C13_Witness ==
    /\ response.op = OpInstantiate
    /\ response.err = Ok
    /\ state[1].sale_price = 1000
    /\ state[1].state_percent = 10
    /\ state[1].seller_percent = 20
    /\ stake_amounts[state[1].buyer] = 100
    /\ stake_amounts[state[1].seller] = 200

\* ------------------------------------------------------------------ C14

\* C14 (as claimed): right after a successful instantiate the agreement is
\* active and not cancelled, no stake is posted and no cancellation is
\* asserted; and a Confirm by a party before any stake is posted fails with
\* StakeIncomplete.
C14_FreshAgreementConfirmStakeIncomplete ==
    /\ (response.op = OpInstantiate /\ response.err = Ok) =>
         /\ state[1].is_active = TRUE
         /\ state[1].is_cancelled = FALSE
         /\ \A c \in Senders : ~Posted(storage, c) /\ ~Asserted(storage, c)
    /\ \A c \in Senders :
         ( /\ Called(OpConfirm, c)
           /\ c \in Parties
           /\ pre.storage.stake_status = EmptyMap ) =>
             response.err = StakeIncomplete

\* ------------------------------------------------------------------ C15

\* C15 (as claimed): in a created agreement both percentages are in 0..100,
\* so neither stake amount, nor a refund of it, exceeds the sale price.
C15_PercentsBoundedAmountsWithinPrice ==
    /\ state # <<>> =>
         /\ state[1].state_percent \in 0..100
         /\ state[1].seller_percent \in 0..100
         /\ \A c \in DOMAIN stake_amounts : stake_amounts[c] <= state[1].sale_price
    /\ \A c \in Senders :
         (Called(OpRevokeStake, c) /\ response.err = Ok) =>
             \A i \in DOMAIN response.messages :
                 response.messages[i].amount <= Agreement.sale_price

\* ------------------------------------------------------------------ C16

\* The flag of `key` in `map` as a status query must report it.
Flag(map, key) == key \in DOMAIN map /\ map[key] = TRUE

\* C16: a GetStatus changes nothing; on a created agreement it succeeds and
\* returns the agreement's fields with each party's posted and asserted
\* flag, false for an absent record; on storage without an agreement it
\* fails.
C16_GetStatusReadsOnly ==
    response.op = OpGetStatus =>
        /\ storage = pre.storage
        /\ response.messages = <<>>
        /\ IF state = <<>>
           THEN response.err = NotFound /\ response.data = <<>>
           ELSE /\ response.err = Ok
                /\ response.data =
                     <<[buyer |-> state[1].buyer,
                        seller |-> state[1].seller,
                        sale_price |-> state[1].sale_price,
                        state_percent |-> state[1].state_percent,
                        seller_percent |-> state[1].seller_percent,
                        title |-> state[1].title,
                        description |-> state[1].description,
                        buyer_stake |-> Flag(stake_status, state[1].buyer),
                        seller_stake |-> Flag(stake_status, state[1].seller),
                        buyer_cancel |-> Flag(cancel_status, state[1].buyer),
                        seller_cancel |-> Flag(cancel_status, state[1].seller),
                        active |-> TRUE,
                        cancelled |-> FALSE,
                        agreement_address |-> ContractAddress]>>

\* C16 witness: a GetStatus on an agreement whose buyer has posted and
\* asserted cancellation and whose seller has neither record.
C16_Witness ==
    /\ response.op = OpGetStatus
    /\ response.err = Ok
    /\ stake_status = save(EmptyMap, state[1].buyer, TRUE)
    /\ cancel_status = save(EmptyMap, state[1].buyer, TRUE)
    /\ response.data[1].buyer_stake = TRUE
    /\ response.data[1].seller_stake = FALSE
    /\ response.data[1].seller_cancel = FALSE

\* ------------------------------------------------------------------ C17

\* C17: once the agreement is created no call changes STATE or
\* STAKE_AMOUNTS: buyer, seller, price, percentages and stake amounts keep
\* their values, is_active stays true and is_cancelled stays false.
C17_AgreementAndAmountsFrozen ==
    [][ state # <<>> =>
          /\ state' = state
          /\ stake_amounts' = stake_amounts
          /\ state'[1].is_active = TRUE
          /\ state'[1].is_cancelled = FALSE
      ]_vars

\* C17 witness: both parties assert cancellation (the second Cancel just
\* returned) and is_cancelled is still false, is_active still true.
C17_Witness ==
    \E c \in Senders :
        /\ Called(OpCancel, c)
        /\ response.err = Ok
        /\ ~Asserted(pre.storage, c)
        /\ Asserted(storage, Agreement.buyer)
        /\ Asserted(storage, Agreement.seller)
        /\ state = pre.storage.state
        /\ state[1].is_cancelled = FALSE
        /\ state[1].is_active = TRUE

\* ------------------------------------------------------------------ C18

\* A successful posting call of a party.
IsPosting(call) == call.op \in {OpStake, OpStakeWithBabylon} /\ call.ok

\* C18: a bank send is emitted only by a successful RevokeStake, alone in
\* its response, payable to the caller, who is a party, and whose latest
\* stake call before it was a successful posting (Stake or
\* StakeWithBabylon): every refund to a party consumes a posting of that
\* party that no earlier refund consumed, so refunds never outnumber
\* postings and none goes to the other party or to an outsider.
C18_RefundMatchedByPosting ==
    \A i \in DOMAIN response.messages :
        response.messages[i].kind = "BankMsg::Send" =>
            /\ pre.storage.state # <<>>
            /\ response.op = OpRevokeStake
            /\ response.err = Ok
            /\ Len(response.messages) = 1
            /\ response.sender \in Parties
            /\ response.messages[i].to_address = response.sender
            /\ IsPosting(pre.last_stake_call[response.sender])
            /\ last_stake_call[response.sender] = StakeCall(OpRevokeStake, TRUE, 0)

\* C18 witness: a party is refunded after a plain Stake while the other
\* party's latest stake call is a refunded RevokeStake of its own.
C18_Witness ==
    \E c \in Senders : \E o \in Senders :
        /\ Called(OpRevokeStake, c)
        /\ c \in Parties /\ o \in Parties /\ o # c
        /\ response.err = Ok
        /\ Len(response.messages) = 1
        /\ response.messages[1].to_address = c
        /\ pre.last_stake_call[c] = StakeCall(OpStake, TRUE, 0)
        /\ last_stake_call[o] = StakeCall(OpRevokeStake, TRUE, 0)

\* ------------------------------------------------------------------ C19

\* Maps m and n hold the same records for every key but c.
SameButFor(m, n, c) ==
    \A k \in (DOMAIN m \cup DOMAIN n) \ {c} :
        /\ has(m, k) /\ has(n, k)
        /\ m[k] = n[k]

\* C19: a stake call (Stake, StakeWithBabylon, RevokeStake) of a party
\* leaves both cancel records and the other party's stake record as they
\* were; a Cancel or RevokeCancellation of a party leaves both stake records
\* and the other party's cancel record as they were; neither touches the
\* agreement or the stake amounts.
C19_PartyIsolation ==
    \A c \in Senders :
        /\ \A op \in StakeOps :
             (Called(op, c) /\ c \in Parties) =>
                 /\ cancel_status = pre.storage.cancel_status
                 /\ SameButFor(stake_status, pre.storage.stake_status, c)
                 /\ state = pre.storage.state
                 /\ stake_amounts = pre.storage.stake_amounts
        /\ \A op \in {OpCancel, OpRevokeCancellation} :
             (Called(op, c) /\ c \in Parties) =>
                 /\ stake_status = pre.storage.stake_status
                 /\ SameButFor(cancel_status, pre.storage.cancel_status, c)
                 /\ state = pre.storage.state
                 /\ stake_amounts = pre.storage.stake_amounts

\* C19 witness: a party's first Cancel changed its own flag while the other
\* party had posted a stake and had no cancel record.
C19_Witness ==
    \E c \in Senders : \E o \in Senders :
        /\ Called(OpCancel, c)
        /\ c \in Parties /\ o \in Parties /\ o # c
        /\ response.err = Ok
        /\ ~has(pre.storage.cancel_status, c)
        /\ cancel_status[c] = TRUE
        /\ ~has(cancel_status, o)
        /\ Posted(storage, o)
        /\ ~Posted(storage, c)

\* ------------------------------------------------------------------ C20

\* C20: a Confirm by a party succeeds exactly when both stake records are
\* true, whatever the cancel records are; a successful Confirm leaves the
\* storage as it was and emits no message, so that a Confirm repeated in
\* the state it left succeeds again.
C20_ConfirmPureCheck ==
    \A c \in Senders :
        (Called(OpConfirm, c) /\ c \in Parties) =>
            /\ (response.err = Ok) <=>
                   ( /\ Flag(pre.storage.stake_status, Agreement.buyer)
                     /\ Flag(pre.storage.stake_status, Agreement.seller) )
            /\ response.err = Ok =>
                   /\ StorageUnchanged
                   /\ response.messages = <<>>
                   /\ \A d \in Parties :
                          /\ execute_confirm(d).err = Ok
                          /\ execute_confirm(d).storage = storage
                          /\ execute_confirm(d).messages = <<>>

\* C20 witness: a Confirm succeeded while both parties assert cancellation.
C20_Witness ==
    \E c \in Senders :
        /\ Called(OpConfirm, c)
        /\ response.err = Ok
        /\ Asserted(storage, Agreement.buyer)
        /\ Asserted(storage, Agreement.seller)

====
